---- MODULE Spec2Model ----
(***************************************************************************)
(* Model of the multi-object tracking core of OpenAVA-Lab:                 *)
(*   src/proposal_generation_pipeline/tools/person_tracker.py              *)
(*   (KalmanFilter, KalmanTrack, KalmanSORTTracker, nms and the part of    *)
(*   PersonTracker that constructs and feeds the tracker).                 *)
(*   src/tools/person_tracker.py is a variant of the same classes whose    *)
(*   PersonTracker passes max_age 30 and min_hits 3.                       *)
(*                                                                         *)
(* Numbers.  The source computes in IEEE doubles; the model computes in    *)
(* fixed point on integers:                                                *)
(*   pixel coordinates, cx, cy, h and their velocities : 1/100 pixel       *)
(*   aspect ratio and its velocity                      : 1/100000         *)
(*   covariance entries, Q, R                           : 1/1000           *)
(*   IoU and match_thresh                               : 1/1000000        *)
(*   detection scores and track_thresh                  : 1/100            *)
(* Products and quotients are rounded to the nearest unit (MulDivR).       *)
(*                                                                         *)
(* Covariance.  F, H, Q, R and the initial P of the source are the same    *)
(* 2x2 (position, velocity) block for each of the four measured            *)
(* dimensions and P never depends on the data, so the 8x8 matrix P is      *)
(* always  [p00*I  p01*I ; p01*I  p11*I]  and S = (p00 + r)*I.  The model  *)
(* keeps the three numbers p00, p01, p11.                                  *)
(***************************************************************************)
EXTENDS Integers, Sequences, FiniteSets

\* ------------------------------------------------------------------------
\* Fixed-point arithmetic
\* ------------------------------------------------------------------------
ScaleX == 100          \* units per pixel
ScaleA == 100000       \* units per 1.0 of aspect ratio
ScaleP == 1000         \* units per 1.0 of covariance
ScaleIoU == 1000000    \* units per 1.0 of IoU

Abs(n) == IF n < 0 THEN 0 - n ELSE n
Sgn(n) == IF n < 0 THEN 0 - 1 ELSE IF n > 0 THEN 1 ELSE 0
Max(a, b) == IF a >= b THEN a ELSE b
Min(a, b) == IF a <= b THEN a ELSE b

\* <<q, r>> with a*b = q*c + r and 0 <= r < c, for a, b >= 0 and c > 0,
\* over the digits of b in radix 16; intermediates stay below 32*c.
RECURSIVE MulDivDigits(_, _, _, _)
MulDivDigits(a, b, c, radix) ==
  IF b = 0 THEN <<0, 0>>
  ELSE LET h == MulDivDigits(a, b \div radix, c, radix)
           d == b % radix
           t == radix * h[2] + d * (a % c)
       IN  <<radix * h[1] + d * (a \div c) + (t \div c), t % c>>

\* One bit of the product: from <<q, r>> with a*n = q*c + r to the pair for
\* a*(2n + bit), every sum of two remainders taken modulo c by comparison
\* and subtraction, so that no intermediate exceeds the larger of c and the
\* quotient.
MulDivBit(h, a, bit, c) ==
  LET ra == a % c
      dbl == h[2] >= c - h[2]
      r2 == IF dbl THEN h[2] - (c - h[2]) ELSE h[2] + h[2]
      add == bit = 1 /\ r2 >= c - ra
      r3 == IF bit = 0 THEN r2
            ELSE IF add THEN r2 - (c - ra) ELSE r2 + ra
  IN  <<2 * h[1] + (IF dbl THEN 1 ELSE 0)
          + bit * (a \div c) + (IF add THEN 1 ELSE 0), r3>>

\* <<q, r>> as MulDivDigits, over the bits of b.
RECURSIVE MulDivBits(_, _, _)
MulDivBits(a, b, c) ==
  IF b = 0 THEN <<0, 0>>
  ELSE CHOOSE qr \in {MulDivBit(h, a, b % 2, c) :
                        h \in {MulDivBits(a, b \div 2, c)}} : TRUE

MulDivQR(a, b, c) ==
  IF a = 0 \/ b = 0 THEN <<0, 0>>
  ELSE IF a <= 2147483647 \div b THEN <<(a * b) \div c, (a * b) % c>>
  ELSE IF c <= 60000000 THEN MulDivDigits(a, b, c, 16)
  ELSE MulDivBits(a, b, c)

\* The quotient of <<q, r>> rounded to the nearest integer (halves up).
RoundQR(qr, c) == qr[1] + (IF qr[2] >= c - qr[2] THEN 1 ELSE 0)

\* a*b/c rounded to the nearest integer (halves away from zero), c > 0.
MulDivR(a, b, c) ==
  CHOOSE q \in {Sgn(x) * Sgn(y) * RoundQR(qr, z) :
                  <<x, y, z, qr>> \in
                    {<<x, y, z, MulDivQR(Max(Abs(x), Abs(y)),
                                         Min(Abs(x), Abs(y)), z)>> :
                       x \in {a}, y \in {b}, z \in {c}}} : TRUE

\* n/2 rounded to the nearest integer (halves away from zero).
Half(n) == Sgn(n) * ((Abs(n) + 1) \div 2)

\* ------------------------------------------------------------------------
\* KalmanFilter
\* ------------------------------------------------------------------------
\* Noise and initial covariance of KalmanFilter.__init__, in ScaleP units.
P0Pos == 10 * ScaleP           \* P = eye * 10
P0Vel == 1000 * P0Pos          \* P[4:, 4:] *= 1000
QPos == ScaleP                 \* Q = eye
QVel == ScaleP \div 100        \* Q[4:, 4:] *= 0.01
RMeas == ScaleP \div 10        \* R = eye(4) * 0.1

\* A filter after __init__: x = 0, P as above, not initialized.
KF_init ==
  [x |-> <<0, 0, 0, 0, 0, 0, 0, 0>>,
   p00 |-> P0Pos, p01 |-> 0, p11 |-> P0Vel,
   is_initialized |-> FALSE]

\* predict with F = I: the state stays where it is.
KF_predict_Still(kf) ==
  [kf EXCEPT
     !.p00 = kf.p00 + 2 * kf.p01 + kf.p11 + QPos,
     !.p01 = kf.p01 + kf.p11,
     !.p11 = kf.p11 + QVel]

\* predict: x <- F x, P <- F P F' + Q, with F = I plus ones at [i, i+4].
KF_predict(kf) ==
  [kf EXCEPT
     !.x = <<kf.x[1] + kf.x[5], kf.x[2] + kf.x[6], kf.x[3] + kf.x[7],
             kf.x[4] + kf.x[8], kf.x[5], kf.x[6], kf.x[7], kf.x[8]>>,
     !.p00 = kf.p00 + 2 * kf.p01 + kf.p11 + QPos,
     !.p01 = kf.p01 + kf.p11,
     !.p11 = kf.p11 + QVel]

\* update(z): the first call copies z into x[:4]; later calls correct x and P
\* with the gain K = P H' inv(S), S = H P H' + R.
KF_update(kf, z) ==
  IF ~kf.is_initialized
  THEN [kf EXCEPT !.x = <<z[1], z[2], z[3], z[4],
                          kf.x[5], kf.x[6], kf.x[7], kf.x[8]>>,
                  !.is_initialized = TRUE]
  ELSE LET S == kf.p00 + RMeas
           y == <<z[1] - kf.x[1], z[2] - kf.x[2], z[3] - kf.x[3], z[4] - kf.x[4]>>
       IN  [kf EXCEPT
              !.x = <<kf.x[1] + MulDivR(kf.p00, y[1], S),
                      kf.x[2] + MulDivR(kf.p00, y[2], S),
                      kf.x[3] + MulDivR(kf.p00, y[3], S),
                      kf.x[4] + MulDivR(kf.p00, y[4], S),
                      kf.x[5] + MulDivR(kf.p01, y[1], S),
                      kf.x[6] + MulDivR(kf.p01, y[2], S),
                      kf.x[7] + MulDivR(kf.p01, y[3], S),
                      kf.x[8] + MulDivR(kf.p01, y[4], S)>>,
              !.p00 = kf.p00 - MulDivR(kf.p00, kf.p00, S),
              !.p01 = kf.p01 - MulDivR(kf.p00, kf.p01, S),
              !.p11 = kf.p11 - MulDivR(kf.p01, kf.p01, S)]

\* A bbox_to_z that takes a square box when h <= 0.
bbox_to_z_Square(bbox) ==
  LET w == bbox[3] - bbox[1]
      h == bbox[4] - bbox[2]
  IN  <<bbox[1] + Half(w), bbox[2] + Half(h),
        IF h > 0 THEN MulDivR(w, ScaleA, h) ELSE ScaleA, h>>

\* bbox_to_z: [x1, y1, x2, y2] -> [cx, cy, w/h (0 when h <= 0), h].
bbox_to_z(bbox) ==
  LET w == bbox[3] - bbox[1]
      h == bbox[4] - bbox[2]
  IN  <<bbox[1] + Half(w), bbox[2] + Half(h),
        IF h > 0 THEN MulDivR(w, ScaleA, h) ELSE 0, h>>

\* z_to_bbox: the box of the filter state, w = aspect * h.
z_to_bbox(x) ==
  LET h == x[4]
      w == MulDivR(x[3], Abs(h), ScaleA) * (IF h < 0 THEN 0 - 1 ELSE 1)
  IN  <<x[1] - Half(w), x[2] - Half(h), x[1] + Half(w), x[2] + Half(h)>>

\* ------------------------------------------------------------------------
\* IoU
\* ------------------------------------------------------------------------
\* inter / (area1 + area2 - inter + 1e-6), in ScaleIoU units rounded down.
\* Areas are in (1/100 px)^2, where the 1e-6 px^2 of the source is 1/100 of
\* a unit: with q0, r0 the quotient and remainder of inter*ScaleIoU by the
\* union, the result is q0 - k for the least k >= 0 with
\* 100*(r0 + k*union) >= q0 - k.
eps_ratio(inter, union) ==
  IF inter = 0 THEN 0
  ELSE LET qr == MulDivQR(inter, ScaleIoU, union)
           q0 == qr[1]
           r0 == qr[2]
       IN  IF r0 >= (q0 + 99) \div 100 THEN q0
           ELSE IF union >= 10000 THEN q0 - 1
           ELSE q0 - ((q0 - 100 * r0 + 100 * union) \div (100 * union + 1))

\* (x2 - x1) * (y2 - y1) of a box.
box_area(b) == (b[3] - b[1]) * (b[4] - b[2])

\* max(0, x2 - x1) * max(0, y2 - y1) of the common rectangle.
inter_area(b1, b2) ==
  LET x1 == Max(b1[1], b2[1])
      y1 == Max(b1[2], b2[2])
      x2 == Min(b1[3], b2[3])
      y2 == Min(b1[4], b2[4])
  IN  Max(0, x2 - x1) * Max(0, y2 - y1)

\* An IoU that divides by the area of the first box only.
iou_FirstArea(b1, b2) ==
  LET inter == inter_area(b1, b2)
  IN  eps_ratio(inter, 2 * box_area(b1) - inter)

\* An IoU that does not clamp the sides of the common rectangle at 0.
iou_Unclamped(b1, b2) ==
  LET inter == Abs((Min(b1[3], b2[3]) - Max(b1[1], b2[1]))
                   * (Min(b1[4], b2[4]) - Max(b1[2], b2[2])))
      union == box_area(b1) + box_area(b2) - inter
  IN  IF union <= 0 THEN 0 - 1 ELSE eps_ratio(inter, union)

iou(b1, b2) ==
  LET inter == inter_area(b1, b2)
      area1 == box_area(b1)
      area2 == box_area(b2)
      union == area1 + area2 - inter
  IN  eps_ratio(inter, union)

\* ------------------------------------------------------------------------
\* KalmanTrack
\* ------------------------------------------------------------------------
\* KalmanTrack.__init__(bbox, score), given the value of the class attribute
\* track_id_counter that it reads (and then increments) and the identity
\* ref of the new object.
KalmanTrack_init(bbox, score, counter, ref) ==
  LET kf == KF_update(KF_init, bbox_to_z(bbox))
  IN  [ref |-> ref, track_id |-> counter, score |-> score, kf |-> kf,
       bbox |-> z_to_bbox(kf.x), hits |-> 1, age |-> 1,
       time_since_update |-> 0]

\* update() that leaves time_since_update as it is.
KalmanTrack_update_KeepTsu(t, bbox, score) ==
  LET kf == KF_update(t.kf, bbox_to_z(bbox))
  IN  [t EXCEPT !.kf = kf, !.bbox = z_to_bbox(kf.x), !.score = score,
                !.hits = t.hits + 1]

\* update() that does not count the hit.
KalmanTrack_update_NoHit(t, bbox, score) ==
  LET kf == KF_update(t.kf, bbox_to_z(bbox))
  IN  [t EXCEPT !.kf = kf, !.bbox = z_to_bbox(kf.x), !.score = score,
                !.time_since_update = 0]

\* KalmanTrack.update(bbox, score)
KalmanTrack_update(t, bbox, score) ==
  LET kf == KF_update(t.kf, bbox_to_z(bbox))
  IN  [t EXCEPT !.kf = kf, !.bbox = z_to_bbox(kf.x), !.score = score,
                !.time_since_update = 0, !.hits = t.hits + 1]

\* predict() of a track whose hits count only the matches in a row: a
\* track that was not matched in the frame before starts again from 0.
KalmanTrack_predict_ResetHits(t) ==
  LET kf == KF_predict(t.kf)
  IN  [t EXCEPT !.kf = kf, !.bbox = z_to_bbox(kf.x), !.age = t.age + 1,
                !.hits = IF t.time_since_update > 0 THEN 0 ELSE t.hits,
                !.time_since_update = t.time_since_update + 1]

\* predict() that forgets to advance age.
KalmanTrack_predict_NoAge(t) ==
  LET kf == KF_predict(t.kf)
  IN  [t EXCEPT !.kf = kf, !.bbox = z_to_bbox(kf.x),
                !.time_since_update = t.time_since_update + 1]

\* KalmanTrack.predict()
KalmanTrack_predict(t) ==
  LET kf == KF_predict(t.kf)
  IN  [t EXCEPT !.kf = kf, !.bbox = z_to_bbox(kf.x), !.age = t.age + 1,
                !.time_since_update = t.time_since_update + 1]

\* ------------------------------------------------------------------------
\* KalmanSORTTracker
\* ------------------------------------------------------------------------
\* A detection is <<x1, y1, x2, y2, score>>.
DetBox(d) == <<d[1], d[2], d[3], d[4]>>
DetScore(d) == d[5]

\* A remove that leaves the list as it is.
Remove_Nothing(s, v) == s

Remove(s, v) == SelectSeq(s, LAMBDA e : e # v)

\* The list of the values of f, each computed once.
List(f) == f \o <<>>
Iota(n) == List([k \in 1..n |-> k])

\* A filter that lets every detection through.
HighConf_All(dets, track_thresh) == dets

\* high_conf_dets of update(): the detections with score >= track_thresh.
HighConf(dets, track_thresh) ==
  SelectSeq(dets, LAMBDA d : DetScore(d) >= track_thresh)

\* The first position of the smallest entry instead.
argmax_Least(row) ==
  CHOOSE k \in 1..Len(row) :
    /\ \A j \in 1..Len(row) : row[j] >= row[k]
    /\ \A j \in 1..(k - 1) : row[j] > row[k]

\* np.argmax: the first position of the largest entry of a non-empty row.
argmax(row) ==
  CHOOSE k \in 1..Len(row) :
    /\ \A j \in 1..Len(row) : row[j] <= row[k]
    /\ \A j \in 1..(k - 1) : row[j] < row[k]

\* An acceptance test that asks for twice the threshold.
Accepts_Twice(best_iou, match_thresh) == best_iou >= 2 * match_thresh

\* The acceptance test of _match: the best IoU reaches match_thresh.
Accepts(best_iou, match_thresh) == best_iou >= match_thresh

\* The loop of _match from track t_idx on, over the tracks in list order.
\* m = [matched, unmatched_dets, unmatched_tracks]; indices count from 1.
RECURSIVE MatchLoop(_, _, _, _, _)
MatchLoop(t_idx, trks, dets, match_thresh, m) ==
  IF t_idx > Len(trks) \/ m.unmatched_dets = <<>> THEN m
  ELSE LET iou_row == List([k \in 1..Len(m.unmatched_dets) |->
                         iou(trks[t_idx].bbox, DetBox(dets[m.unmatched_dets[k]]))])
           best_local_idx == argmax(iou_row)
           best_det_idx == m.unmatched_dets[best_local_idx]
       IN  IF Accepts(iou_row[best_local_idx], match_thresh)
           THEN MatchLoop(t_idx + 1, trks, dets, match_thresh,
                  [matched |-> Append(m.matched, <<t_idx, best_det_idx>>),
                   unmatched_dets |-> Remove(m.unmatched_dets, best_det_idx),
                   unmatched_tracks |-> Remove(m.unmatched_tracks, t_idx)])
           ELSE MatchLoop(t_idx + 1, trks, dets, match_thresh, m)

\* _match(detections) on the (already predicted) tracks.
match(trks, dets, match_thresh) ==
  MatchLoop(1, trks, dets, match_thresh,
            [matched |-> <<>>, unmatched_dets |-> Iota(Len(dets)),
             unmatched_tracks |-> Iota(Len(trks))])

\* Report tests that drop the time_since_update condition, or accept one
\* hit too few.
Reportable_NoTsu(t, min_hits) == t.hits >= min_hits
Reportable_OneEarly(t, min_hits) ==
  t.time_since_update = 0 /\ t.hits + 1 >= min_hits

\* The report test of update(): matched in this frame and confirmed.
Reportable(t, min_hits) == t.time_since_update = 0 /\ t.hits >= min_hits

\* A retention test that drops a track one frame early.
Retained_Early(t, max_age) == t.time_since_update < max_age

\* The retention test of update(): not unmatched for more than max_age.
Retained(t, max_age) == t.time_since_update <= max_age

\* The detection matched to track t_idx, or 0.
MatchedDet(matched, t_idx) ==
  IF \E k \in 1..Len(matched) : matched[k][1] = t_idx
  THEN matched[CHOOSE k \in 1..Len(matched) : matched[k][1] = t_idx][2]
  ELSE 0

\* KalmanSORTTracker.update(detections) on tracker T, with the class counter
\* and the next object identity as they are when the call starts.  Yields
\* the new live list, the returned list, the counter and, for the record,
\* the intermediate values of the call.
update(T, detections, counter, nref) ==
  LET high_conf_dets == HighConf(detections, T.track_thresh)
      predicted == List([k \in 1..Len(T.tracks) |-> KalmanTrack_predict(T.tracks[k])])
      m == match(predicted, high_conf_dets, T.match_thresh)
      updated == List([k \in 1..Len(predicted) |->
                    LET d == MatchedDet(m.matched, k)
                    IN  IF d = 0 THEN predicted[k]
                        ELSE KalmanTrack_update(predicted[k],
                               DetBox(high_conf_dets[d]), DetScore(high_conf_dets[d]))])
      spawned == List([k \in 1..Len(m.unmatched_dets) |->
                    LET d == high_conf_dets[m.unmatched_dets[k]]
                    IN  KalmanTrack_init(DetBox(d), DetScore(d),
                                         counter + k - 1, nref + k - 1)])
      all == updated \o spawned
  IN  [tracks |-> SelectSeq(all, LAMBDA t : Retained(t, T.max_age)),
       active |-> SelectSeq(all, LAMBDA t : Reportable(t, T.min_hits)),
       counter |-> counter + Len(spawned),
       nref |-> nref + Len(spawned),
       high_conf_dets |-> high_conf_dets,
       predicted |-> predicted,
       matched |-> m.matched,
       unmatched_dets |-> m.unmatched_dets,
       unmatched_tracks |-> m.unmatched_tracks,
       all |-> all]

\* KalmanSORTTracker.__init__: the parameters, an empty live list, and the
\* class counter of KalmanTrack set back to 0.
Tracker_init(track_thresh, match_thresh, max_age, min_hits) ==
  [constructed |-> TRUE, track_thresh |-> track_thresh,
   match_thresh |-> match_thresh, max_age |-> max_age,
   min_hits |-> min_hits, tracks |-> <<>>]

\* A constructor that leaves the class counter as it finds it.
CounterAfterInit_NoReset(counter) == counter

\* Line 97 of the source: KalmanTrack.track_id_counter = 0.
CounterAfterInit(counter) == 0

NoTracker ==
  [constructed |-> FALSE, track_thresh |-> 0, match_thresh |-> 0,
   max_age |-> 0, min_hits |-> 0, tracks |-> <<>>]

\* ------------------------------------------------------------------------
\* nms and detect_persons
\* ------------------------------------------------------------------------
\* np.argsort(scores): the indices in ascending order of score (scores of
\* equal value in index order, as the sort of short arrays leaves them).
argsort(scores) ==
  CHOOSE p \in [1..Len(scores) -> 1..Len(scores)] :
    /\ \A a, b \in 1..Len(scores) : a # b => p[a] # p[b]
    /\ \A a, b \in 1..Len(scores) :
         a < b => \/ scores[p[a]] < scores[p[b]]
                  \/ (scores[p[a]] = scores[p[b]] /\ p[a] < p[b])

\* s[::-1]
Reversed(s) == List([k \in 1..Len(s) |-> s[Len(s) + 1 - k]])

\* A test that lets a box at the threshold stay.
Survives_AtThreshold(v, thresh) == v <= thresh

\* Line 156: a box stays in the running when its IoU with the kept box is
\* below thresh.
Survives(v, thresh) == v < thresh

\* The while loop of nms: indices in descending score order, keep so far.
RECURSIVE NmsLoop(_, _, _, _)
NmsLoop(boxes, thresh, indices, keep) ==
  IF indices = <<>> THEN keep
  ELSE LET i == Head(indices)
       IN  IF Len(indices) = 1 THEN Append(keep, i)
           ELSE NmsLoop(boxes, thresh,
                        SelectSeq(Tail(indices),
                                  LAMBDA j : Survives(iou(boxes[i], boxes[j]), thresh)),
                        Append(keep, i))

\* nms(boxes, scores, thresh): the kept indices, boxes[keep] and scores[keep].
nms(boxes, scores, thresh) ==
  IF Len(boxes) = 0 THEN [keep |-> <<>>, boxes |-> <<>>, scores |-> <<>>]
  ELSE LET keep == NmsLoop(boxes, thresh, Reversed(argsort(scores)), <<>>)
       IN  [keep |-> keep,
            boxes |-> List([k \in 1..Len(keep) |-> boxes[keep[k]]]),
            scores |-> List([k \in 1..Len(keep) |-> scores[keep[k]]])]

DefaultNmsThresh == 600000

\* PersonTracker.detect_persons on the boxes raw that the detector gives for
\* persons: those with score >= conf, through nms, as [x1, y1, x2, y2, s].
detect_persons(raw, conf) ==
  LET results_raw == SelectSeq(raw, LAMBDA r : DetScore(r) >= conf)
      out == nms(List([k \in 1..Len(results_raw) |-> DetBox(results_raw[k])]),
                 List([k \in 1..Len(results_raw) |-> DetScore(results_raw[k])]),
                 DefaultNmsThresh)
  IN  IF results_raw = <<>> THEN <<>>
      ELSE List([k \in 1..Len(out.boxes) |->
                   <<out.boxes[k][1], out.boxes[k][2], out.boxes[k][3],
                     out.boxes[k][4], out.scores[k]>>])

\* ------------------------------------------------------------------------
\* State
\* ------------------------------------------------------------------------
Inst == {1, 2}          \* tracker instances of one process

VARIABLES
  track_id_counter,     \* KalmanTrack.track_id_counter (class attribute)
  tracker,              \* Inst -> KalmanSORTTracker object
  call,                 \* the last call made: its input, intermediates, result
  life,                 \* per track object ever created (indexed by ref): history
  frame,                \* Inst -> number of update() calls so far
  alone,                \* Inst -> no other tracker constructed or used since its construction
  scen                  \* position of the scenario driver (clip specifications)

vars == <<track_id_counter, tracker, call, life, frame, alone, scen>>

\* ------------------------------------------------------------------------
\* Bounds and inputs
\* ------------------------------------------------------------------------
MaxFrames == 3          \* update() calls per tracker
MaxDets == 2            \* detections per frame
MaxCoasting == 12       \* frames a track is followed without a detection

\* The defaults of KalmanSORTTracker.__init__, which are also what
\* PersonTracker.__init__ passes (track_thresh being its conf, 0.5 by
\* default).
DefaultTrackThresh == 50        \* track_thresh=0.5
DefaultMatchThresh == 300000    \* match_thresh=0.3
DefaultMaxAge == 75             \* max_age=75
DefaultMinHits == 5             \* min_hits=5

\* Other arguments given to the constructor.
MaxAges == {0, 1}       \* values of max_age
ArgConfigs == {<<0, 1>>, <<1, 1>>, <<0, 2>>, <<1, 2>>, <<1, 3>>}   \* <<max_age, min_hits>>

\* Detections offered to update(): a 50x50 box, the same box moved 15 px
\* (IoU 0.538 with the first), and a distant 40x80 box.
Px(n) == n * ScaleX
DetA == <<Px(10), Px(10), Px(60), Px(60), 90>>
DetA2 == <<Px(25), Px(10), Px(75), Px(60), 50>>
DetB == <<Px(200), Px(10), Px(240), Px(90), 90>>
DetLow == <<Px(10), Px(10), Px(60), Px(60), 40>>
DetAlphabet == {DetA, DetA2, DetB}

\* The lists of at most n pairwise different detections over S.
DetListsOver(S, n) ==
  {l \in UNION {[1..k -> S] : k \in 0..n} :
     \A a, b \in 1..Len(l) : a # b => l[a] # l[b]}

DetLists == DetListsOver(DetAlphabet, MaxDets) \cup {<<DetLow>>}

NoCall ==
  [op |-> "init", inst |-> 1, detections |-> <<>>, high_conf_dets |-> <<>>,
   predicted |-> <<>>, matched |-> <<>>, unmatched_dets |-> <<>>,
   unmatched_tracks |-> <<>>, all |-> <<>>, active |-> <<>>]

NoScen == [kind |-> "none"]

\* What the record of a call keeps of a track object: all but the filter.
View(t) ==
  [ref |-> t.ref, track_id |-> t.track_id, bbox |-> t.bbox, hits |-> t.hits,
   age |-> t.age, time_since_update |-> t.time_since_update]
Views(trks) == List([k \in 1..Len(trks) |-> View(trks[k])])

\* ------------------------------------------------------------------------
\* History kept per track object
\* ------------------------------------------------------------------------
\* life[ref] = [inst, track_id, born: frame of creation, assigned: frames in
\* which a detection was given to the track, streak: how many of the latest
\* frames in a row, prev_run: the streak that the latest miss ended,
\* first_report: frame of first return (or -1), pruned]
LifeAfter(i, r, f) ==
  LET old == [ref \in 1..Len(life) |->
                IF life[ref].inst # i \/ life[ref].pruned THEN life[ref]
                ELSE LET k == CHOOSE k \in 1..Len(r.all) : r.all[k].ref = ref
                         hit == MatchedDet(r.matched, k) # 0
                         rep == \E a \in 1..Len(r.active) : r.active[a].ref = ref
                     IN  [life[ref] EXCEPT
                            !.assigned = IF hit THEN @ + 1 ELSE @,
                            !.streak = IF hit THEN @ + 1 ELSE 0,
                            !.prev_run = IF ~hit /\ life[ref].streak > 0
                                         THEN life[ref].streak ELSE @,
                            !.first_report = IF @ = 0 - 1 /\ rep THEN f ELSE @,
                            !.pruned = ~(\E t \in 1..Len(r.tracks) : r.tracks[t].ref = ref)]]
      new == [k \in 1..(r.nref - Len(life) - 1) |->
                LET ref == Len(life) + k
                    t == r.all[CHOOSE n \in 1..Len(r.all) : r.all[n].ref = ref]
                IN  [inst |-> i, track_id |-> t.track_id, born |-> f,
                     assigned |-> 1, streak |-> 1, prev_run |-> 0,
                     first_report |-> IF \E a \in 1..Len(r.active) : r.active[a].ref = ref
                                      THEN f ELSE 0 - 1,
                     pruned |-> ~(\E n \in 1..Len(r.tracks) : r.tracks[n].ref = ref)]]
  IN  old \o new

\* ------------------------------------------------------------------------
\* Actions
\* ------------------------------------------------------------------------
\* tracker i: update(detections)
DoUpdate(i, detections) ==
  /\ tracker[i].constructed
  /\ \A k \in 1..Len(tracker[i].tracks) :
       tracker[i].tracks[k].time_since_update <= MaxCoasting
  /\ \E r \in {update(tracker[i], detections, track_id_counter, Len(life) + 1)} :
       /\ tracker' = [tracker EXCEPT ![i].tracks = r.tracks]
       /\ track_id_counter' = r.counter
       /\ call' = [op |-> "update", inst |-> i, detections |-> detections,
                   high_conf_dets |-> r.high_conf_dets,
                   predicted |-> Views(r.predicted),
                   matched |-> r.matched, unmatched_dets |-> r.unmatched_dets,
                   unmatched_tracks |-> r.unmatched_tracks,
                   all |-> Views(r.all), active |-> Views(r.active)]
       /\ life' = LifeAfter(i, r, frame[i])
  /\ frame' = [frame EXCEPT ![i] = @ + 1]
  /\ alone' = [j \in Inst |-> IF j = i THEN alone[j] ELSE FALSE]

\* A second tracker is constructed in the same process.
Construct(i, max_age, min_hits) ==
  /\ ~tracker[i].constructed
  /\ tracker' = [tracker EXCEPT
                   ![i] = Tracker_init(DefaultTrackThresh, DefaultMatchThresh,
                                       max_age, min_hits)]
  /\ track_id_counter' = CounterAfterInit(track_id_counter)
  /\ call' = [NoCall EXCEPT !.inst = i]
  /\ alone' = [j \in Inst |-> j = i]
  /\ UNCHANGED <<life, frame, scen>>

Update(i) ==
  /\ scen.kind = "none"
  /\ frame[i] < MaxFrames
  /\ \E detections \in DetLists : DoUpdate(i, detections)
  /\ UNCHANGED scen

\* The state after the process has constructed its first tracker.
InitOf(track_thresh, max_age, min_hits) ==
  /\ track_id_counter = CounterAfterInit(0)
  /\ tracker = [i \in Inst |->
                  IF i = 1 THEN Tracker_init(track_thresh, DefaultMatchThresh,
                                             max_age, min_hits)
                  ELSE NoTracker]
  /\ call = NoCall
  /\ life = <<>>
  /\ frame = [i \in Inst |-> 0]
  /\ alone = [i \in Inst |-> i = 1]

InitWith(max_age, min_hits) == InitOf(DefaultTrackThresh, max_age, min_hits)

\* The tracker as PersonTracker.__init__ constructs it.
InitProgram == InitOf(DefaultTrackThresh, DefaultMaxAge, DefaultMinHits)

Init ==
  /\ \/ \E c \in ArgConfigs : InitWith(c[1], c[2])
     \/ InitWith(DefaultMaxAge, DefaultMinHits)
  /\ scen = NoScen

\* One tracker, updated frame by frame.
Next == Update(1)

Spec == Init /\ [][Next]_vars

\* ------------------------------------------------------------------------
\* Two trackers in one process
\* ------------------------------------------------------------------------
SharedDetLists == {<<>>, <<DetA>>, <<DetB>>}

UpdateShared(i) ==
  /\ scen.kind = "shared"
  /\ frame[i] < MaxFrames
  /\ \E detections \in SharedDetLists : DoUpdate(i, detections)
  /\ UNCHANGED scen

ConstructSecond ==
  /\ scen.kind = "shared"
  /\ \E min_hits \in 1..2 : Construct(2, 0, min_hits)

InitShared ==
  /\ \E min_hits \in 1..2 : InitWith(0, min_hits)
  /\ scen = [kind |-> "shared"]

NextShared == (\E i \in Inst : UpdateShared(i)) \/ ConstructSecond

SpecShared == InitShared /\ [][NextShared]_vars

\* ------------------------------------------------------------------------
\* A tracker kept in use while another is constructed
\* ------------------------------------------------------------------------
\* The first tracker processes its frames; at some point the process
\* constructs a second tracker (which is not used here).
ReuseDetLists == {<<>>, <<DetA>>, <<DetB>>, <<DetA, DetB>>, <<DetA2, DetA>>}

UpdateReuse ==
  /\ scen.kind = "reuse"
  /\ frame[1] < MaxFrames
  /\ \E detections \in ReuseDetLists : DoUpdate(1, detections)
  /\ UNCHANGED scen

ConstructOther ==
  /\ scen.kind = "reuse"
  /\ Construct(2, 0, 1)

InitReuse ==
  /\ \E max_age \in MaxAges, min_hits \in 1..2 : InitWith(max_age, min_hits)
  /\ scen = [kind |-> "reuse"]

NextReuse == UpdateReuse \/ ConstructOther

SpecReuse == InitReuse /\ [][NextReuse]_vars

\* ------------------------------------------------------------------------
\* A clip with one object
\* ------------------------------------------------------------------------
\* process_video on a clip that shows one 50x50 object: each frame the
\* detector yields its box or (while it is occluded) nothing,
\* detect_persons filters that, and the tracker is updated with the result.
\* The object moves v per frame, and jump more between the first frame and
\* the second; it is occluded at most once, for at most MaxGap frames.  The
\* tracker is the one PersonTracker constructs, or one constructed with
\* max_age 12 and min_hits 1 or 3.
MaxClipFrames == 20     \* frames of a one-object clip
MaxGap == 2             \* frames of an occlusion

ClipVelocities == {0 - Px(3), Px(5), Px(25)}
ClipJumps == {0, Px(60)}
ClipMaxAges == {12}
ClipMinHits == {1, 3}

ObjDet(pos) == <<pos, Px(10), pos + Px(50), Px(60), 90>>

ClipMove == scen.v + (IF frame[1] = 0 THEN scen.jump ELSE 0)

\* One frame of the clip: the detector sees the object or, during the
\* occlusion, nothing; then update().
ClipFrame ==
  /\ scen.kind = "clip"
  /\ frame[1] < MaxClipFrames
  /\ \E seen \in BOOLEAN :
       /\ seen \/ (frame[1] > 0 /\ scen.gap < MaxGap /\ (scen.gap = 0 \/ ~scen.seen))
       /\ DoUpdate(1, detect_persons(IF seen THEN <<ObjDet(scen.pos)>> ELSE <<>>,
                                      tracker[1].track_thresh))
       /\ scen' = [scen EXCEPT !.pos = @ + ClipMove,
                               !.gap = IF seen THEN @ ELSE @ + 1,
                               !.seen = seen]

InitClip ==
  /\ \/ \E max_age \in ClipMaxAges, min_hits \in ClipMinHits : InitWith(max_age, min_hits)
     \/ InitProgram
  /\ \E v \in ClipVelocities, jump \in ClipJumps :
       scen = [kind |-> "clip", pos |-> Px(100), v |-> v, jump |-> jump,
               gap |-> 0, seen |-> FALSE]

NextClip == ClipFrame

SpecClip == InitClip /\ [][NextClip]_vars

\* ------------------------------------------------------------------------
\* A clip with two objects
\* ------------------------------------------------------------------------
\* process_video on a clip that shows two 50x50 objects a and b on one
\* line, both seen by the detector in every frame, in either order;
\* detect_persons filters and suppresses the two boxes and the tracker is
\* updated with what is left.  Between frames a steps right or stays and b
\* steps left or stays.  Track ta (by ref) is the one spawned for a in the
\* first frame, track 3 - ta the one for b.  The tracker is the one
\* PersonTracker constructs, or one constructed with max_age 1 and min_hits
\* 1 or 2.
MaxCrossFrames == 4     \* frames of a two-object clip

CrossStepsA == {0, Px(25)}
CrossStepsB == {0, 0 - Px(25)}
CrossMinHits == {1, 2}

InSeq(ref, trks) == \E k \in 1..Len(trks) : trks[k].ref = ref
WithRef(ref, trks) == trks[CHOOSE k \in 1..Len(trks) : trks[k].ref = ref]

\* Both objects have a detection in the call c.
CrossPair(c) == Len(c.detections) = 2

\* The place of the detection with box da in the detections of c.
CrossPlace(c, da) ==
  CHOOSE k \in 1..Len(c.detections) : DetBox(c.detections[k]) = da

\* The IoUs of a call c in which a's detection has box da and b's box db:
\* ab between the two detections, aa and bb of each detection with the
\* predicted box of its own track, a_b and b_a of each predicted box with
\* the other object's detection.
CrossIoUs(c, da, db, ta) ==
  LET pa == WithRef(ta, c.predicted).bbox
      pb == WithRef(3 - ta, c.predicted).bbox
  IN  [ab |-> iou(da, db), aa |-> iou(pa, da), bb |-> iou(pb, db),
       a_b |-> iou(pa, db), b_a |-> iou(pb, da)]

CrossBoth(c) == InSeq(1, c.predicted) /\ InSeq(2, c.predicted)

\* The two objects overlap each other no more than each overlaps the
\* predicted box of its own track.
CrossMutual(c, da, db, ta) ==
  /\ CrossPair(c)
  /\ CrossBoth(c)
  /\ \E q \in {CrossIoUs(c, da, db, ta)} : q.ab <= q.aa /\ q.ab <= q.bb

\* The two tracks are the live set, each predicted box reaches match_thresh
\* with its own object's detection and overlaps it more than it overlaps
\* the other object's detection.
CrossOwn(c, da, db, ta, match_thresh) ==
  /\ CrossPair(c)
  /\ CrossBoth(c)
  /\ Len(c.predicted) = 2
  /\ \E q \in {CrossIoUs(c, da, db, ta)} :
       /\ q.aa >= match_thresh /\ q.bb >= match_thresh
       /\ q.aa > q.a_b /\ q.bb > q.b_a

\* Both tracks had hits >= min_hits when the call started.
CrossConfirmed(c, min_hits) ==
  /\ CrossBoth(c)
  /\ \A ref \in {1, 2} : WithRef(ref, c.predicted).hits >= min_hits

\* Each object's detection was given to its own track.
CrossKept(c, da, db, ta) ==
  /\ CrossPair(c)
  /\ CrossBoth(c)
  /\ \A o \in {0, 1} :
       LET d == CrossPlace(c, IF o = 0 THEN da ELSE db)
           ref == IF o = 0 THEN ta ELSE 3 - ta
       IN  \E m \in 1..Len(c.matched) :
             c.matched[m][2] = d /\ c.predicted[c.matched[m][1]].ref = ref

CrossFrame ==
  /\ scen.kind = "cross"
  /\ frame[1] < MaxCrossFrames
  /\ \E sa \in CrossStepsA, sb \in CrossStepsB, ia \in {1, 2} :
       /\ DoUpdate(1, detect_persons(IF ia = 1 THEN <<ObjDet(scen.a), ObjDet(scen.b)>>
                                      ELSE <<ObjDet(scen.b), ObjDet(scen.a)>>,
                                      tracker[1].track_thresh))
       /\ \E da \in {DetBox(ObjDet(scen.a))}, db \in {DetBox(ObjDet(scen.b))} :
          \E ta \in {IF frame[1] = 0 THEN CrossPlace(call', da) ELSE scen.ta} :
            scen' = [scen EXCEPT
                       !.a = @ + sa, !.b = @ + sb, !.ia = ia, !.ta = ta,
                       !.mutual = @ /\ (frame[1] = 0 \/ CrossMutual(call', da, db, ta)),
                       !.own = @ /\ (frame[1] = 0 \/
                                     CrossOwn(call', da, db, ta, tracker[1].match_thresh)),
                       !.confirmed = CrossConfirmed(call', tracker[1].min_hits),
                       !.kept = @ /\ (frame[1] = 0 \/ CrossKept(call', da, db, ta))]

InitCross ==
  /\ \/ \E min_hits \in CrossMinHits : InitWith(1, min_hits)
     \/ InitProgram
  /\ scen = [kind |-> "cross", a |-> Px(100), b |-> Px(155), ia |-> 1, ta |-> 1,
             mutual |-> TRUE, own |-> TRUE, confirmed |-> FALSE, kept |-> TRUE]

NextCross == CrossFrame

SpecCross == InitCross /\ [][NextCross]_vars

\* ------------------------------------------------------------------------
\* Two trackers, one thread each
\* ------------------------------------------------------------------------
\* Both trackers are constructed before the threads start.  Each thread
\* calls update() on its own tracker.  Everything update() does is local to
\* the instance except KalmanTrack.__init__, which reads the class counter
\* (line 64) and increments it (line 65: a load and a store); the threads
\* interleave at these three accesses.
MaxThreadFrames == 2
DetC == <<Px(300), Px(100), Px(350), Px(180), 90>>
ThreadDetLists == {<<DetA, DetB>>, <<DetC>>}

IdleThread == [pc |-> "idle", r |-> <<>>, detections |-> <<>>, base |-> 0,
               n |-> 0, k |-> 0, id |-> 0, tmp |-> 0, ids |-> <<>>]

\* The tracks of a finished call with the ids that the spawn steps read.
WithIds(trks, base, ids) ==
  List([j \in 1..Len(trks) |->
          IF trks[j].ref >= base
          THEN [trks[j] EXCEPT !.track_id = ids[trks[j].ref - base + 1]]
          ELSE trks[j]])

\* update() up to the first KalmanTrack(...) of line 105.
ThreadStart(i) ==
  /\ scen.kind = "threads"
  /\ scen.th[i].pc = "idle"
  /\ frame[i] < MaxThreadFrames
  /\ \E detections \in ThreadDetLists :
       \E r \in {update(tracker[i], detections, 0, scen.nref[i])} :
         scen' = [scen EXCEPT
                    !.nref[i] = r.nref,
                    !.th[i] = [pc |-> IF r.counter > 0 THEN "read" ELSE "finish",
                               r |-> r, detections |-> detections,
                               base |-> scen.nref[i], n |-> r.counter, k |-> 1,
                               id |-> 0, tmp |-> 0, ids |-> <<>>]]
  /\ UNCHANGED <<track_id_counter, tracker, call, life, frame, alone>>

\* Line 64: self.track_id = KalmanTrack.track_id_counter
ThreadReadId(i) ==
  /\ scen.kind = "threads"
  /\ scen.th[i].pc = "read"
  /\ scen' = [scen EXCEPT !.th[i].id = track_id_counter, !.th[i].pc = "load"]
  /\ UNCHANGED <<track_id_counter, tracker, call, life, frame, alone>>

\* Line 65, first half: the value of KalmanTrack.track_id_counter is loaded.
ThreadLoad(i) ==
  /\ scen.kind = "threads"
  /\ scen.th[i].pc = "load"
  /\ scen' = [scen EXCEPT !.th[i].tmp = track_id_counter, !.th[i].pc = "store"]
  /\ UNCHANGED <<track_id_counter, tracker, call, life, frame, alone>>

\* Line 65, second half: the loaded value plus one is stored; the track is
\* complete and the loop of line 105 goes on.
ThreadStore(i) ==
  /\ scen.kind = "threads"
  /\ scen.th[i].pc = "store"
  /\ track_id_counter' = scen.th[i].tmp + 1
  /\ scen' = [scen EXCEPT
                !.th[i].ids = Append(@, scen.th[i].id),
                !.th[i].k = @ + 1,
                !.th[i].pc = IF scen.th[i].k < scen.th[i].n THEN "read" ELSE "finish",
                !.ids[i] = Append(@, scen.th[i].id)]
  /\ UNCHANGED <<tracker, call, life, frame, alone>>

\* Lines 106-111: the live list is replaced and the reportable tracks returned.
ThreadFinish(i) ==
  /\ scen.kind = "threads"
  /\ scen.th[i].pc = "finish"
  /\ LET th == scen.th[i]
     IN  /\ tracker' = [tracker EXCEPT ![i].tracks = WithIds(th.r.tracks, th.base, th.ids)]
         /\ call' = [op |-> "update", inst |-> i, detections |-> th.detections,
                     high_conf_dets |-> th.r.high_conf_dets,
                     predicted |-> Views(th.r.predicted),
                     matched |-> th.r.matched, unmatched_dets |-> th.r.unmatched_dets,
                     unmatched_tracks |-> th.r.unmatched_tracks,
                     all |-> Views(WithIds(th.r.all, th.base, th.ids)),
                     active |-> Views(WithIds(th.r.active, th.base, th.ids))]
  /\ frame' = [frame EXCEPT ![i] = @ + 1]
  /\ scen' = [scen EXCEPT !.th[i] = IdleThread]
  /\ UNCHANGED <<track_id_counter, life, alone>>

InitThreads ==
  /\ track_id_counter = CounterAfterInit(CounterAfterInit(0))
  /\ tracker = [i \in Inst |-> Tracker_init(DefaultTrackThresh, DefaultMatchThresh, 1, 1)]
  /\ call = NoCall
  /\ life = <<>>
  /\ frame = [i \in Inst |-> 0]
  /\ alone = [i \in Inst |-> FALSE]
  /\ scen = [kind |-> "threads", nref |-> [i \in Inst |-> 1],
             th |-> [i \in Inst |-> IdleThread],
             ids |-> [i \in Inst |-> <<>>]]

NextThreads ==
  \E i \in Inst : \/ ThreadStart(i)
                  \/ ThreadReadId(i)
                  \/ ThreadLoad(i)
                  \/ ThreadStore(i)
                  \/ ThreadFinish(i)

SpecThreads == InitThreads /\ [][NextThreads]_vars

\* ------------------------------------------------------------------------
\* Frames with a degenerate detection
\* ------------------------------------------------------------------------
\* process_video on frames for which the detector yields, next to
\* well-formed boxes, a box of height 0 and a box with y2 < y1 (the 50x50
\* box of DetA upside down); detect_persons filters and suppresses them and
\* the tracker is updated with what is left.
MaxDegenFrames == 3
DetFlat == <<Px(100), Px(200), Px(150), Px(200), 90>>
DetInv == <<Px(10), Px(60), Px(60), Px(10), 90>>
DegenDetLists ==
  {<<>>, <<DetA>>, <<DetFlat>>, <<DetA, DetFlat>>, <<DetInv, DetA>>, <<DetInv, DetA2>>}

\* h <= 0, the case bbox_to_z guards.
Degenerate(d) == d[4] - d[2] <= 0

DegenFrame ==
  /\ scen.kind = "degen"
  /\ frame[1] < MaxDegenFrames
  /\ \E raw \in DegenDetLists :
       DoUpdate(1, detect_persons(raw, tracker[1].track_thresh))
  /\ UNCHANGED scen

InitDegen ==
  /\ \/ \E max_age \in MaxAges, min_hits \in 1..2 : InitWith(max_age, min_hits)
     \/ InitProgram
  /\ scen = [kind |-> "degen"]

NextDegen == DegenFrame

SpecDegen == InitDegen /\ [][NextDegen]_vars

\* ------------------------------------------------------------------------
\* _iou on its own
\* ------------------------------------------------------------------------
\* _iou(a, b) and _iou(b, a) for two well-formed boxes (x1 <= x2, y1 <= y2,
\* zero areas included) with corners on a grid of 25 px.
IoUGrid == 3
IoUStep == Px(25)
IoUCoords == {k * IoUStep : k \in 0..IoUGrid}
IoUBoxes ==
  {<<x1, y1, x2, y2>> : x1 \in IoUCoords, y1 \in IoUCoords,
                        x2 \in IoUCoords, y2 \in IoUCoords}
WellFormed(b) == b[1] <= b[3] /\ b[2] <= b[4]

IoUCall ==
  /\ scen.kind = "iou"
  /\ ~scen.done
  /\ scen' = [scen EXCEPT !.ab = iou(scen.a, scen.b),
                          !.ba = iou(scen.b, scen.a),
                          !.done = TRUE]
  /\ UNCHANGED <<track_id_counter, tracker, call, life, frame, alone>>

InitIoU ==
  /\ track_id_counter = 0
  /\ tracker = [i \in Inst |-> NoTracker]
  /\ call = NoCall
  /\ life = <<>>
  /\ frame = [i \in Inst |-> 0]
  /\ alone = [i \in Inst |-> FALSE]
  /\ \E a \in IoUBoxes, b \in IoUBoxes :
       /\ WellFormed(a) /\ WellFormed(b)
       /\ scen = [kind |-> "iou", a |-> a, b |-> b, ab |-> 0, ba |-> 0, done |-> FALSE]

NextIoU == IoUCall

SpecIoU == InitIoU /\ [][NextIoU]_vars

\* ------------------------------------------------------------------------
\* nms
\* ------------------------------------------------------------------------
\* Inputs: up to MaxNmsBoxes different boxes out of a 50x50 box, the same
\* box moved 5 px (IoU 0.818) and 15 px (IoU 0.538), and a distant box;
\* pairwise different scores; thresh 0.6 (the default) or 0.
MaxNmsBoxes == 3
NmsBoxAlphabet ==
  {<<Px(10), Px(10), Px(60), Px(60)>>, <<Px(15), Px(10), Px(65), Px(60)>>,
   <<Px(25), Px(10), Px(75), Px(60)>>, <<Px(200), Px(10), Px(240), Px(90)>>}
NmsScores == {100 - 10 * k : k \in 1..MaxNmsBoxes}
NmsThreshs == {0, DefaultNmsThresh}

NmsCall ==
  /\ scen.kind = "nms"
  /\ ~scen.done
  /\ scen' = [scen EXCEPT !.out = nms(scen.boxes, scen.scores, scen.thresh),
                          !.done = TRUE]
  /\ UNCHANGED <<track_id_counter, tracker, call, life, frame, alone>>

InitNms ==
  /\ track_id_counter = 0
  /\ tracker = [i \in Inst |-> NoTracker]
  /\ call = NoCall
  /\ life = <<>>
  /\ frame = [i \in Inst |-> 0]
  /\ alone = [i \in Inst |-> FALSE]
  /\ \E boxes \in DetListsOver(NmsBoxAlphabet, MaxNmsBoxes), thresh \in NmsThreshs :
       \E scores \in DetListsOver(NmsScores, MaxNmsBoxes) :
         /\ Len(scores) = Len(boxes)
         /\ scen = [kind |-> "nms", boxes |-> boxes, scores |-> scores,
                    thresh |-> thresh, done |-> FALSE,
                    out |-> [keep |-> <<>>, boxes |-> <<>>, scores |-> <<>>]]

NextNms == NmsCall

SpecNms == InitNms /\ [][NextNms]_vars

\* ------------------------------------------------------------------------
\* Frames with detections below track_thresh
\* ------------------------------------------------------------------------
\* update() is called with lists that hold, next to detections of score
\* 0.9 and of score 0.5 (exactly track_thresh), detections of score 0.4 and
\* 0.49.
MaxLowFrames == 3
DetLowB == <<Px(200), Px(10), Px(240), Px(90), 49>>
LowDetLists ==
  {<<>>, <<DetA>>, <<DetLow>>, <<DetLow, DetB>>, <<DetA2, DetLow>>, <<DetA, DetLowB>>}

LowFrame ==
  /\ scen.kind = "low"
  /\ frame[1] < MaxLowFrames
  /\ \E detections \in LowDetLists : DoUpdate(1, detections)
  /\ UNCHANGED scen

InitLow ==
  /\ \E max_age \in MaxAges, min_hits \in 1..2 : InitWith(max_age, min_hits)
  /\ scen = [kind |-> "low"]

NextLow == LowFrame

SpecLow == InitLow /\ [][NextLow]_vars

\* ------------------------------------------------------------------------
\* A clip with one object that moves, grows and gets lost
\* ------------------------------------------------------------------------
\* process_video on a clip whose one object, 50 wide, moves v and grows
\* taller by g per frame; from the second frame on the detector may miss
\* it.  The tracker is the one PersonTracker constructs, or one constructed
\* with max_age 12 and min_hits 1.
\* x0[r] is the filter state that track r had when it was last matched (or
\* created).
MaxCoastFrames == 6
CoastVelocities == {Px(5), 0 - Px(8)}
CoastGrowths == {0, Px(4)}

CoastDet(pos, tall) == <<pos, Px(10), pos + Px(50), Px(10) + tall, 90>>

LastMatched(x0, trks, n) ==
  List([r \in 1..n |->
          IF InSeq(r, trks) /\ WithRef(r, trks).time_since_update = 0
          THEN WithRef(r, trks).kf.x
          ELSE x0[r]])

CoastFrame ==
  /\ scen.kind = "coast"
  /\ frame[1] < MaxCoastFrames
  /\ \E seen \in BOOLEAN :
       /\ seen \/ frame[1] > 0
       /\ DoUpdate(1, detect_persons(IF seen THEN <<CoastDet(scen.pos, scen.tall)>>
                                      ELSE <<>>, tracker[1].track_thresh))
       /\ scen' = [scen EXCEPT !.pos = @ + scen.v,
                               !.tall = @ + scen.g,
                               !.x0 = LastMatched(@, tracker'[1].tracks, Len(life'))]

InitCoast ==
  /\ \/ \E max_age \in ClipMaxAges : InitWith(max_age, 1)
     \/ InitProgram
  /\ \E v \in CoastVelocities, g \in CoastGrowths :
       scen = [kind |-> "coast", pos |-> Px(100), tall |-> Px(50), v |-> v,
               g |-> g, x0 |-> <<>>]

NextCoast == CoastFrame

SpecCoast == InitCoast /\ [][NextCoast]_vars

\* ------------------------------------------------------------------------
\* A caller that keeps the list returned by update()
\* ------------------------------------------------------------------------
\* A caller of update() keeps the returned list, whose elements are the
\* KalmanTrack objects of the tracker, while it calls update() again.  seen
\* is what the caller read from the objects of the kept list when update()
\* returned it, now what they hold.
MaxHeldFrames == 3
HeldDetLists == {<<>>, <<DetA>>, <<DetA2>>, <<DetA, DetB>>}

\* The objects of a kept list after a call that left the tracks in views.
Deref(now, views) ==
  List([k \in 1..Len(now) |->
          IF InSeq(now[k].ref, views) THEN WithRef(now[k].ref, views) ELSE now[k]])

HeldFrame ==
  /\ scen.kind = "held"
  /\ frame[1] < MaxHeldFrames
  /\ \E detections \in HeldDetLists : DoUpdate(1, detections)
  /\ \E keep \in BOOLEAN :
       scen' = IF keep
               THEN [scen EXCEPT !.at = frame'[1], !.seen = call'.active,
                                 !.now = call'.active]
               ELSE [scen EXCEPT !.now = Deref(@, call'.all)]

InitHeld ==
  /\ \E max_age \in MaxAges, min_hits \in 1..2 : InitWith(max_age, min_hits)
  /\ scen = [kind |-> "held", at |-> 0, seen |-> <<>>, now |-> <<>>]

NextHeld == HeldFrame

SpecHeld == InitHeld /\ [][NextHeld]_vars

\* ------------------------------------------------------------------------
\* A clip that goes on after its objects have gone
\* ------------------------------------------------------------------------
\* The frame loop of process_video (lines 205-224) on a clip whose container
\* announces total frames and delivers good of them.  Each iteration reads
\* a frame and leaves the loop when the read fails; of the frames read,
\* those whose number frame_count is a multiple of interval (frame_interval,
\* int(video_fps / sample_rate) or 1) go through detect_persons and
\* update(), the others are passed over.  The first MaxGoneFrames frames
\* given to update() may show up to two objects, the later ones show
\* nothing.  The tracker is the one PersonTracker constructs, or one
\* constructed with a small max_age.  missed[r] counts the latest update()
\* calls in a row in which track r got no detection.
MaxGoneFrames == 4      \* update() calls whose frame may show objects
MaxGoneLen == 7         \* frames of a clip
GoneMaxAges == {0, 1, 2}
GoneDetLists == {<<>>, <<DetA>>, <<DetB>>, <<DetA, DetB>>}
GoneShort == {0, 1}     \* announced frames that the container fails to deliver
GoneIntervals == {1, 2}

MissedAfter(missed, c, n) ==
  List([r \in 1..n |->
          IF ~InSeq(r, c.all) THEN missed[r]
          ELSE IF ~InSeq(r, c.predicted) THEN 0
          ELSE LET k == CHOOSE k \in 1..Len(c.predicted) : c.predicted[k].ref = r
               IN  IF MatchedDet(c.matched, k) # 0 THEN 0 ELSE missed[r] + 1])

\* The loop is running and has an iteration left, and cap.read() of that
\* iteration returns a frame.
GoneMore ==
  /\ scen.kind = "gone"
  /\ ~scen.broke
  /\ scen.frame_count < scen.total
  /\ scen.frame_count < scen.good

\* frame_count % frame_interval == 0
GoneSampled == scen.frame_count % scen.interval = 0

\* The update() calls that the rest of the loop makes.
GoneLeft ==
  IF scen.broke THEN 0
  ELSE Cardinality({k \in scen.frame_count..(Min(scen.total, scen.good) - 1) :
                      k % scen.interval = 0})

\* An iteration on a sampled frame: detect_persons, update().
GoneFrame ==
  /\ GoneMore
  /\ GoneSampled
  /\ \E raw \in GoneDetLists :
       /\ frame[1] < MaxGoneFrames \/ raw = <<>>
       /\ DoUpdate(1, detect_persons(raw, tracker[1].track_thresh))
  /\ scen' = [scen EXCEPT !.frame_count = @ + 1,
                          !.missed = MissedAfter(@, call', Len(life'))]

\* An iteration on a frame that is not sampled: only frame_count moves.
GoneSkip ==
  /\ GoneMore
  /\ ~GoneSampled
  /\ scen' = [scen EXCEPT !.frame_count = @ + 1]
  /\ UNCHANGED <<track_id_counter, tracker, call, life, frame, alone>>

\* An iteration whose read fails: break.
GoneBreak ==
  /\ scen.kind = "gone"
  /\ ~scen.broke
  /\ scen.frame_count < scen.total
  /\ scen.frame_count >= scen.good
  /\ scen' = [scen EXCEPT !.broke = TRUE]
  /\ UNCHANGED <<track_id_counter, tracker, call, life, frame, alone>>

\* What a GoneFrame step does to the count of update() calls.  GoneFrame
\* is enabled exactly when GoneTick is, and every GoneFrame step is a
\* GoneTick step, so weak fairness of GoneTick is weak fairness of the
\* iterations that call update().
GoneTick == GoneMore /\ GoneSampled /\ frame' = [frame EXCEPT ![1] = @ + 1]

InitGone ==
  /\ \/ \E max_age \in GoneMaxAges : InitWith(max_age, 1)
     \/ InitProgram
  /\ \E total \in 1..MaxGoneLen, short \in GoneShort, interval \in GoneIntervals :
       /\ short < total
       /\ scen = [kind |-> "gone", total |-> total, good |-> total - short,
                  interval |-> interval, frame_count |-> 0, broke |-> FALSE,
                  missed |-> <<>>]

NextGone == GoneFrame \/ GoneSkip \/ GoneBreak

\* The loop is sequential code: while it has an iteration, it takes it.
SpecGone ==
  /\ InitGone /\ [][NextGone]_vars
  /\ WF_frame(GoneTick) /\ WF_vars(GoneSkip) /\ WF_vars(GoneBreak)

\* ------------------------------------------------------------------------
\* Claims
\* ------------------------------------------------------------------------
Refs == 1..Len(life)
LiveOf(i) == tracker[i].tracks
\* The frame number (from 0) of the last update() of tracker i.
LastFrame(i) == frame[i] - 1
\* The track_ids tracker i has assigned, in order of creation.
CreatedRefs(i) == {r \in Refs : life[r].inst = i}

\* C1: after every update(), a live track is in the returned list if and
\* only if its time_since_update is 0 and its hits are at least min_hits.
C1_OutputIffReportable ==
  call.op = "update" =>
    \A k \in 1..Len(LiveOf(call.inst)) :
      LET t == LiveOf(call.inst)[k]
      IN  InSeq(t.ref, call.active) <=>
            (t.time_since_update = 0 /\ t.hits >= tracker[call.inst].min_hits)

\* A frame that returns a track spawned in it (min_hits = 1) while a
\* confirmed track coasts unreported.
C1_Witness ==
  /\ call.op = "update"
  /\ \E a \in 1..Len(call.active) : call.active[a].age = 1
  /\ \E k \in 1..Len(LiveOf(call.inst)) :
       /\ LiveOf(call.inst)[k].time_since_update > 0
       /\ LiveOf(call.inst)[k].hits >= tracker[call.inst].min_hits
       /\ ~InSeq(LiveOf(call.inst)[k].ref, call.active)

\* C2: the n-th track created by a tracker that is the only one in use
\* since its construction has track_id n-1.
C2_AloneIdsSequential ==
  \A i \in Inst :
    (tracker[i].constructed /\ alone[i]) =>
      \A r \in CreatedRefs(i) :
        life[r].track_id = Cardinality({q \in CreatedRefs(i) : q < r})

\* The second tracker, used alone after the first, has created a track,
\* lost it to pruning and created another.
C2_Witness ==
  /\ tracker[2].constructed /\ alone[2]
  /\ CreatedRefs(1) # {}
  /\ \E r, q \in CreatedRefs(2) : r < q /\ life[r].pruned

\* C3: the track_id of a pruned track is carried by no other track of that
\* tracker afterwards, neither live nor returned.
C3_PrunedIdNeverReturns ==
  call.op = "update" =>
    \A r \in Refs :
      (life[r].pruned /\ life[r].inst = call.inst) =>
        \A k \in 1..Len(call.all) :
          call.all[k].ref # r => call.all[k].track_id # life[r].track_id

\* The case of C4 for predicted track k and detection d of the last call:
\* the track was matched in 10 frames in a row, has since been without a
\* detection for 1 <= gap < max_age frames, and d overlaps its predicted box
\* by at least match_thresh.
C4_Case(k, d) ==
  LET p == call.predicted[k]
      gap == p.time_since_update - 1
  IN  /\ gap >= 1 /\ gap < tracker[call.inst].max_age
      /\ life[p.ref].prev_run >= 10
      /\ iou(p.bbox, DetBox(call.high_conf_dets[d])) >= tracker[call.inst].match_thresh

\* Track k of the last call took detection d: same object and track_id, one
\* more hit, time_since_update 0, and d spawned nothing.
C4_Taken(k, d) ==
  /\ \E m \in 1..Len(call.matched) : call.matched[m] = <<k, d>>
  /\ call.all[k].ref = call.predicted[k].ref
  /\ call.all[k].track_id = call.predicted[k].track_id
  /\ call.all[k].hits = call.predicted[k].hits + 1
  /\ call.all[k].time_since_update = 0
  /\ \A u \in 1..Len(call.unmatched_dets) : call.unmatched_dets[u] # d
  /\ Len(call.all) = Len(call.predicted)

\* C4 (as stated): in a one-object clip, a detection that reappears after
\* 1 <= k < max_age frames without one and overlaps the predicted box of
\* the track matched for 10 frames before is given to that track, and no
\* track is spawned.
C4_ReappearanceRejoins ==
  (scen.kind = "clip" /\ call.op = "update") =>
    \A k \in 1..Len(call.predicted), d \in 1..Len(call.high_conf_dets) :
      C4_Case(k, d) => C4_Taken(k, d)

\* C4 (amended): the same, provided no other live track's predicted box
\* reaches match_thresh with the detection.
C4_ReappearanceRejoinsUncontested ==
  (scen.kind = "clip" /\ call.op = "update") =>
    \A k \in 1..Len(call.predicted), d \in 1..Len(call.high_conf_dets) :
      (/\ C4_Case(k, d)
       /\ \A j \in 1..Len(call.predicted) :
            j # k => iou(call.predicted[j].bbox, DetBox(call.high_conf_dets[d]))
                       < tracker[call.inst].match_thresh)
        => C4_Taken(k, d)

\* A track matched in 10 frames in a row, then 2 frames without a
\* detection, rejoined by the detection in the last call.
C4_Witness ==
  /\ scen.kind = "clip" /\ call.op = "update"
  /\ \E k \in 1..Len(call.predicted), d \in 1..Len(call.high_conf_dets) :
       /\ C4_Case(k, d)
       /\ call.predicted[k].time_since_update = 3
       /\ call.all[k].time_since_update = 0
       /\ call.all[k].hits = call.predicted[k].hits + 1

\* C5: a track returned in frame f was spawned in a frame s <= f - N + 1 and
\* has had a detection assigned in at least N frames, N = min_hits.
C5_ConfirmationDelay ==
  call.op = "update" =>
    \A a \in 1..Len(call.active) :
      LET l == life[call.active[a].ref]
          N == tracker[call.inst].min_hits
      IN  /\ LastFrame(call.inst) >= l.born + N - 1
          /\ l.assigned >= N

\* A track first returned in the third frame of its life under min_hits = 3.
C5_Witness ==
  /\ call.op = "update"
  /\ tracker[call.inst].min_hits = 3
  /\ \E a \in 1..Len(call.active) :
       LET l == life[call.active[a].ref]
       IN  l.first_report = LastFrame(call.inst) /\ l.born = LastFrame(call.inst) - 2

\* C6: in the frame of its first return, a track has had a detection
\* assigned in each of the min_hits most recent frames.
C6_FirstReportConsecutive ==
  call.op = "update" =>
    \A a \in 1..Len(call.active) :
      LET l == life[call.active[a].ref]
      IN  l.first_report = LastFrame(call.inst) =>
            l.streak >= tracker[call.inst].min_hits

\* C7: update([]) ages every live track by one frame, leaves hits alone,
\* creates no track and returns no more tracks than the call before it.
C7_EmptyUpdate ==
  [][(call'.op = "update" /\ call'.detections = <<>> /\ frame' # frame) =>
       LET before == tracker[call'.inst].tracks
       IN  /\ Len(call'.all) = Len(before)
           /\ \A k \in 1..Len(before) :
                /\ call'.all[k].ref = before[k].ref
                /\ call'.all[k].age = before[k].age + 1
                /\ call'.all[k].time_since_update = before[k].time_since_update + 1
                /\ call'.all[k].hits = before[k].hits
           /\ Len(life') = Len(life)
           /\ track_id_counter' = track_id_counter
           /\ Len(call'.active) <= (IF call.op = "update" THEN Len(call.active) ELSE 0)
           /\ \A k \in 1..Len(tracker'[call'.inst].tracks) :
                InSeq(tracker'[call'.inst].tracks[k].ref, before)]_vars

\* update([]) on two live tracks, one of them confirmed and matched the
\* frame before.
C7_Witness ==
  /\ call.op = "update" /\ call.detections = <<>>
  /\ Len(call.all) >= 2
  /\ \E k \in 1..Len(call.all) :
       /\ call.all[k].time_since_update = 1
       /\ call.all[k].hits >= tracker[call.inst].min_hits

\* C8 (as stated): when in every frame so far the two detections overlap
\* each other no more than each overlaps the predicted box of its own
\* track, and both tracks are confirmed, every frame so far gave each
\* object's detection to its own track.
C8_NoSwapMutualIoU ==
  (scen.kind = "cross" /\ scen.mutual /\ scen.confirmed) => scen.kept

\* C8 (amended): when in every frame so far the two tracks are the live
\* set and each predicted box reaches match_thresh with its own object's
\* detection and overlaps it more than the other object's detection, every
\* frame so far gave each object's detection to its own track.
C8_NoSwapOwnPrediction ==
  (scen.kind = "cross" /\ scen.own) => scen.kept

\* Two confirmed tracks kept their objects through three frames or more
\* while the two detections of the last frame overlap.
C8_Witness ==
  /\ scen.kind = "cross" /\ scen.own /\ scen.confirmed /\ scen.kept
  /\ frame[1] >= 3
  /\ Len(call.detections) = 2
  /\ iou(DetBox(call.detections[1]), DetBox(call.detections[2])) > 0

\* C9: in a one-object clip with a detection in every frame and constant
\* velocity, one track is ever created and every returned track is that
\* one, returned in every frame from the min_hits-th on.
C9_OneIdentity ==
  (scen.kind = "clip" /\ scen.jump = 0 /\ scen.gap = 0 /\ frame[1] >= 1) =>
    /\ Len(life) = 1
    /\ \A a \in 1..Len(call.active) : call.active[a].track_id = life[1].track_id
    /\ Len(call.active) = (IF frame[1] >= tracker[1].min_hits THEN 1 ELSE 0)

\* The 20th frame of a clip whose object moved 5 px per frame, detected in
\* every frame, with its track returned.
C9_Witness ==
  /\ scen.kind = "clip" /\ scen.jump = 0 /\ scen.gap = 0
  /\ scen.v = Px(5)
  /\ frame[1] = 20
  /\ Len(call.active) = 1

\* C10: the track_ids one tracker assigns are pairwise different, whatever
\* other trackers of the process do.
C10_IdsDistinctPerTracker ==
  \A r, q \in Refs :
    (r # q /\ life[r].inst = life[q].inst) => life[r].track_id # life[q].track_id

\* C11: when two trackers, each in its own thread, run update() at the same
\* time, the track_ids that each instance assigns are pairwise distinct,
\* however the reads and increments of the counter interleave.
C11_ThreadIdsDistinct ==
  scen.kind = "threads" =>
    \A i \in Inst : \A a, b \in 1..Len(scen.ids[i]) :
      a # b => scen.ids[i][a] # scen.ids[i][b]

\* How many times v occurs in the sequence s.
Occurrences(s, v) == Cardinality({k \in 1..Len(s) : s[k] = v})

\* C12: _match returns (matched, unmatched_dets, unmatched_tracks) such that
\* every track index is in exactly one matched pair or once in
\* unmatched_tracks, every detection index is in exactly one matched pair
\* or once in unmatched_dets, and every matched pair has IoU >= match_thresh;
\* with no track all detections are unmatched, with no detection all tracks.
C12_MatchPartitions ==
  call.op = "update" =>
    LET nT == Len(call.predicted)
        nD == Len(call.high_conf_dets)
        m == call.matched
        trks == [k \in 1..Len(m) |-> m[k][1]]
        dets == [k \in 1..Len(m) |-> m[k][2]]
    IN  /\ \A k \in 1..Len(m) : m[k][1] \in 1..nT /\ m[k][2] \in 1..nD
        /\ \A k \in 1..Len(call.unmatched_tracks) : call.unmatched_tracks[k] \in 1..nT
        /\ \A k \in 1..Len(call.unmatched_dets) : call.unmatched_dets[k] \in 1..nD
        /\ \A t \in 1..nT : Occurrences(trks, t) + Occurrences(call.unmatched_tracks, t) = 1
        /\ \A d \in 1..nD : Occurrences(dets, d) + Occurrences(call.unmatched_dets, d) = 1
        /\ \A k \in 1..Len(m) :
             iou(call.predicted[m[k][1]].bbox, DetBox(call.high_conf_dets[m[k][2]]))
               >= tracker[call.inst].match_thresh
        /\ nT = 0 => m = <<>> /\ call.unmatched_dets = Iota(nD)
                              /\ call.unmatched_tracks = <<>>
        /\ nD = 0 => m = <<>> /\ call.unmatched_tracks = Iota(nT)
                              /\ call.unmatched_dets = <<>>

\* A call with two tracks and two detections of which one pair is matched,
\* and (in other states) calls with no track and with no detection.
C12_Witness ==
  /\ call.op = "update"
  /\ Len(call.predicted) = 2 /\ Len(call.high_conf_dets) = 2
  /\ Len(call.matched) = 1
  /\ Len(call.unmatched_dets) = 1 /\ Len(call.unmatched_tracks) = 1

\* What a call does to a track, apart from its identity.
Shape(v) == <<v.bbox, v.hits, v.age, v.time_since_update>>
Shapes(trks) == List([k \in 1..Len(trks) |-> Shape(trks[k])])

\* The positions of call.all that do not hold a track spawned for a
\* degenerate detection of the call.
WellFormedPart(c) ==
  LET nT == Len(c.predicted)
  IN  SelectSeq(Iota(Len(c.all)),
                LAMBDA p : p <= nT
                           \/ ~Degenerate(c.high_conf_dets[c.unmatched_dets[p - nT]]))

\* The index of detection d among the well-formed detections of the list.
WellFormedIndex(dets, d) == Cardinality({j \in 1..d : ~Degenerate(dets[j])})

\* C14: a detection with h <= 0 does not make update() fail: its aspect
\* ratio is taken as 0 (the track spawned for it has width 0), it is matched
\* to no track, and the call does to the live tracks and to the other
\* detections of the frame exactly what it does without the degenerate
\* detection: same matched pairs, same tracks updated, spawned, kept and
\* returned.
C14_DegenerateDetection ==
  [][(scen.kind = "degen" /\ \E j \in 1..Len(call'.detections) : Degenerate(call'.detections[j]))
     =>
     LET c == call'
         nT == Len(c.predicted)
         rest == SelectSeq(c.detections, LAMBDA d : ~Degenerate(d))
         r == update(tracker[1], rest, track_id_counter, Len(life) + 1)
         part == WellFormedPart(c)
         kept == [k \in 1..Len(part) |-> c.all[part[k]]]
     IN  /\ \A j \in 1..Len(c.high_conf_dets) :
              Degenerate(c.high_conf_dets[j]) =>
                /\ bbox_to_z(DetBox(c.high_conf_dets[j]))[3] = 0
                /\ \E k \in 1..Len(c.unmatched_dets) :
                     /\ c.unmatched_dets[k] = j
                     /\ c.all[nT + k].bbox[1] = c.all[nT + k].bbox[3]
                     /\ c.all[nT + k].hits = 1
         /\ Len(c.matched) = Len(r.matched)
         /\ \A k \in 1..Len(c.matched) :
              r.matched[k] = <<c.matched[k][1],
                               WellFormedIndex(c.high_conf_dets, c.matched[k][2])>>
         /\ Shapes(kept) = Shapes(r.all)
         /\ \A k \in 1..Len(kept) :
              /\ (k <= nT => kept[k].track_id = r.all[k].track_id)
              /\ InSeq(kept[k].ref, c.active)
                   <=> Reportable(r.all[k], tracker[1].min_hits)
              /\ InSeq(kept[k].ref, tracker'[1].tracks)
                   <=> Retained(r.all[k], tracker[1].max_age)
    ]_vars

\* A frame with an upside-down box and a well-formed one: the well-formed
\* detection is matched to its track, which is returned, while a track
\* spawned for an earlier degenerate detection is live.
C14_Witness ==
  /\ scen.kind = "degen"
  /\ call.op = "update"
  /\ \E j \in 1..Len(call.detections) : call.detections[j] = DetInv
  /\ Len(call.matched) = 1
  /\ Len(call.predicted) >= 2
  /\ \E a \in 1..Len(call.active) : call.active[a].hits >= 2

\* The quotient inter / (areaA + areaB - inter) itself, in ScaleIoU units
\* rounded down, and whether it is a whole number of units.
PlainRatio(a, b) ==
  MulDivQR(inter_area(a, b), ScaleIoU,
           box_area(a) + box_area(b) - inter_area(a, b))
Contains(a, b) == a[1] <= b[1] /\ a[2] <= b[2] /\ b[3] <= a[3] /\ b[4] <= a[4]

\* C15: for overlapping boxes iou(a, b) is exactly
\* inter / (areaA + areaB - inter): identical boxes of positive area give
\* exactly 1.0, a box that contains a box of half its area exactly 0.5.
C15_IoUExact ==
  (scen.kind = "iou" /\ scen.done /\ inter_area(scen.a, scen.b) > 0) =>
    /\ scen.ab = PlainRatio(scen.a, scen.b)[1]
    /\ scen.a = scen.b => scen.ab = ScaleIoU
    /\ (Contains(scen.a, scen.b) /\ box_area(scen.a) = 2 * box_area(scen.b))
         => scen.ab = ScaleIoU \div 2

\* C16: iou(a, b) = iou(b, a).
C16_IoUSymmetric ==
  (scen.kind = "iou" /\ scen.done) => scen.ab = scen.ba

\* Two different overlapping boxes of different areas, compared both ways.
C16_Witness ==
  /\ scen.kind = "iou" /\ scen.done
  /\ scen.a # scen.b
  /\ box_area(scen.a) # box_area(scen.b)
  /\ scen.ab > 0 /\ scen.ab < ScaleIoU \div 2

\* C17: iou is 0 for boxes that do not overlap (apart or touching), is
\* computed for boxes of area 0 as well (the divisor is never 0), and is
\* never negative (nor above 1) for well-formed boxes.
C17_IoUZeroAndNonNegative ==
  (scen.kind = "iou" /\ scen.done) =>
    /\ inter_area(scen.a, scen.b) = 0 => scen.ab = 0
    /\ (box_area(scen.a) = 0 \/ box_area(scen.b) = 0) => scen.ab = 0
    /\ scen.ab >= 0 /\ scen.ab <= ScaleIoU
    /\ inter_area(scen.a, scen.b) > 0 => scen.ab > 0

\* Two boxes of positive area apart in both directions; in other states of
\* the specification two boxes that share an edge, and two boxes of area 0.
C17_Witness ==
  /\ scen.kind = "iou" /\ scen.done
  /\ box_area(scen.a) > 0 /\ box_area(scen.b) > 0
  /\ scen.a[3] < scen.b[1] /\ scen.a[4] < scen.b[2]
  /\ scen.ab = 0

\* Whether inter / (union + 1e-6) is exactly v (in ScaleIoU units), and
\* whether it is above v.
iou_equals(b1, b2, v) ==
  LET inter == inter_area(b1, b2)
      union == box_area(b1) + box_area(b2) - inter
  IN  IF inter = 0 THEN v = 0
      ELSE LET qr == MulDivQR(inter, ScaleIoU, union)
           IN  /\ iou(b1, b2) = v
               /\ v % 100 = 0
               /\ (qr[1] - v) * union + qr[2] = v \div 100
iou_above(b1, b2, v) == iou(b1, b2) >= v /\ ~iou_equals(b1, b2, v)

\* What every call of nms satisfies whatever the test for removal: nothing
\* in gives nothing out, the box of highest score is kept first, the kept
\* boxes come with their own scores in descending order of score.
NmsOutputShape ==
  LET n == Len(scen.boxes)
      keep == scen.out.keep
  IN  /\ n = 0 => keep = <<>> /\ scen.out.boxes = <<>> /\ scen.out.scores = <<>>
      /\ n > 0 => /\ Len(keep) >= 1
                  /\ \A j \in 1..n : scen.scores[keep[1]] >= scen.scores[j]
      /\ \A k \in 1..Len(keep) : keep[k] \in 1..n
      /\ Len(scen.out.boxes) = Len(keep) /\ Len(scen.out.scores) = Len(keep)
      /\ \A k \in 1..Len(keep) : /\ scen.out.boxes[k] = scen.boxes[keep[k]]
                                 /\ scen.out.scores[k] = scen.scores[keep[k]]
      /\ \A a, b \in 1..Len(keep) : a < b => scen.out.scores[a] > scen.out.scores[b]

\* C18: greedy NMS keeps the box of highest score, removes exactly the
\* remaining boxes whose IoU with it is above the threshold (a box whose
\* IoU equals the threshold is not removed) and repeats: a box is removed
\* if and only if a kept box of higher score overlaps it above the
\* threshold; the kept boxes are returned with their scores in descending
\* score order; an empty input gives an empty output.
C18_GreedyNms ==
  (scen.kind = "nms" /\ scen.done) =>
    /\ NmsOutputShape
    /\ \A j \in 1..Len(scen.boxes) :
         ~(\E k \in 1..Len(scen.out.keep) : scen.out.keep[k] = j)
         <=> \E k \in 1..Len(scen.out.keep) :
               /\ scen.scores[scen.out.keep[k]] > scen.scores[j]
               /\ iou_above(scen.boxes[scen.out.keep[k]], scen.boxes[j], scen.thresh)

\* C18 as the code has it: a box is removed if and only if a kept box of
\* higher score has IoU at or above the threshold with it.
C18_GreedyNmsAtOrAbove ==
  (scen.kind = "nms" /\ scen.done) =>
    /\ NmsOutputShape
    /\ \A j \in 1..Len(scen.boxes) :
         ~(\E k \in 1..Len(scen.out.keep) : scen.out.keep[k] = j)
         <=> \E k \in 1..Len(scen.out.keep) :
               /\ scen.scores[scen.out.keep[k]] > scen.scores[j]
               /\ iou(scen.boxes[scen.out.keep[k]], scen.boxes[j]) >= scen.thresh

\* A call with the default threshold on three boxes where the box of middle
\* score is removed by the first and the box of lowest score is kept.
C18_Witness ==
  /\ scen.kind = "nms" /\ scen.done
  /\ scen.thresh = DefaultNmsThresh
  /\ Len(scen.boxes) = 3
  /\ Len(scen.out.keep) = 2
  /\ scen.scores[scen.out.keep[2]] < scen.scores[CHOOSE j \in 1..3 :
                                        j # scen.out.keep[1] /\ j # scen.out.keep[2]]

\* C19: one call of update() advances age by exactly 1 for every track that
\* was live when it was called; a track that is given a detection has hits
\* advanced by exactly 1 and time_since_update set to 0; any other track
\* keeps its hits and has time_since_update advanced by exactly 1.  So the
\* time_since_update of an existing track is 0 only after an association.
C19_CounterTransition ==
  [][(call'.op = "update" /\ frame' # frame) =>
       LET before == tracker[call'.inst].tracks
       IN  /\ Len(call'.all) >= Len(before)
           /\ \A k \in 1..Len(before) :
                LET hit == MatchedDet(call'.matched, k) # 0
                    after == call'.all[k]
                IN  /\ after.ref = before[k].ref
                    /\ after.track_id = before[k].track_id
                    /\ after.age = before[k].age + 1
                    /\ hit => /\ after.hits = before[k].hits + 1
                              /\ after.time_since_update = 0
                    /\ ~hit => /\ after.hits = before[k].hits
                               /\ after.time_since_update
                                    = before[k].time_since_update + 1
                    /\ after.time_since_update = 0 => hit]_vars

\* A call that finds two live tracks, gives a detection to one of them and
\* none to the other, which was already unmatched the frame before.
C19_Witness ==
  /\ call.op = "update"
  /\ Len(call.predicted) >= 2
  /\ \E k \in 1..Len(call.predicted) :
       /\ MatchedDet(call.matched, k) # 0
       /\ call.all[k].hits >= 2 /\ call.all[k].time_since_update = 0
  /\ \E k \in 1..Len(call.predicted) :
       /\ MatchedDet(call.matched, k) = 0
       /\ call.all[k].time_since_update = 2

\* The IoU of predicted track k with detection d in the last call.
CallIoU(k, d) == iou(call.predicted[k].bbox, DetBox(call.high_conf_dets[d]))

\* The detections of the last call not given to a track before track k.
FreeFor(k) ==
  {d \in 1..Len(call.high_conf_dets) :
     \A j \in 1..(k - 1) : MatchedDet(call.matched, j) # d}

\* The association of the last call is the greedy one: going through the
\* tracks in list order, each track gets the detection of highest IoU among
\* those not yet taken (of lowest index among equals) if that IoU is at
\* least match_thresh, and none otherwise.
GreedyInListOrder ==
  \A k \in 1..Len(call.predicted) :
    LET free == FreeFor(k)
        d == MatchedDet(call.matched, k)
    IN  IF free = {} THEN d = 0
        ELSE LET best == CHOOSE b \in free :
                           \A o \in free : \/ CallIoU(k, b) > CallIoU(k, o)
                                           \/ (CallIoU(k, b) = CallIoU(k, o) /\ b <= o)
             IN  IF CallIoU(k, best) >= tracker[call.inst].match_thresh
                 THEN d = best ELSE d = 0

\* The live list of every tracker is in creation order, which is the order
\* of ascending track_id.
LiveListInIdOrder ==
  \A i \in Inst : \A a, b \in 1..Len(tracker[i].tracks) :
    a < b => /\ tracker[i].tracks[a].ref < tracker[i].tracks[b].ref
             /\ tracker[i].tracks[a].track_id < tracker[i].tracks[b].track_id

\* C20: association is greedy in the order of the live list, which is
\* always creation order (ascending track_id): each track in turn gets the
\* detection of highest IoU among those not yet taken (lowest index on
\* ties) provided the IoU is at least match_thresh, so the older of two
\* tracks that compete for a detection gets it.
C20_GreedyInCreationOrder ==
  /\ LiveListInIdOrder
  /\ call.op = "update" => GreedyInListOrder

\* Two tracks compete for one detection: the older one takes it although
\* the newer one overlaps it more.
C20_Witness ==
  /\ call.op = "update"
  /\ \E k \in 1..Len(call.predicted), n \in 1..Len(call.predicted) :
       /\ k < n
       /\ MatchedDet(call.matched, k) # 0
       /\ CallIoU(n, MatchedDet(call.matched, k)) > CallIoU(k, MatchedDet(call.matched, k))
       /\ MatchedDet(call.matched, n) = 0

\* C21: every detection with score >= track_thresh that _match leaves
\* unmatched creates exactly one track, appended to the live list, with
\* hits = 1, age = 1, time_since_update = 0, a track_id that no other track
\* of the tracker has or had, and the filter state [cx, cy, w/h, h, 0, 0, 0, 0]
\* of that detection; no other track is created, and the tracks created in
\* a call are not among the tracks that the call matched.
C21_Spawn ==
  call.op = "update" =>
    LET c == call
        trk == tracker[c.inst]
        nT == Len(c.predicted)
        nU == Len(c.unmatched_dets)
    IN  /\ c.high_conf_dets
             = SelectSeq(c.detections, LAMBDA d : DetScore(d) >= trk.track_thresh)
        /\ Len(c.all) = nT + nU
        /\ \A k \in 1..nT : c.all[k].ref = c.predicted[k].ref /\ c.all[k].age >= 2
        /\ \A k \in 1..Len(c.matched) : c.matched[k][1] \in 1..nT
        /\ Len(trk.tracks) >= nU
        /\ \A k \in 1..nU :
             LET d == c.high_conf_dets[c.unmatched_dets[k]]
                 v == c.all[nT + k]
                 t == trk.tracks[Len(trk.tracks) - nU + k]
             IN  /\ v.hits = 1 /\ v.age = 1 /\ v.time_since_update = 0
                 /\ t.ref = v.ref /\ t.track_id = v.track_id
                 /\ t.kf.x = bbox_to_z(DetBox(d)) \o <<0, 0, 0, 0>>
                 /\ t.score = DetScore(d)
                 /\ \A j \in 1..Len(c.all) : j # nT + k => c.all[j].ref # v.ref
                 /\ \A r \in Refs :
                      (life[r].inst = c.inst /\ r # v.ref)
                        => life[r].track_id # v.track_id

\* A call with a matched detection and an unmatched detection that
\* creates a track next to an older one.
C21_Witness ==
  /\ call.op = "update"
  /\ Len(call.predicted) >= 1
  /\ Len(call.matched) >= 1
  /\ Len(call.unmatched_dets) = 1
  /\ Len(call.all) >= 2

\* C22: at the end of every update() the live list is exactly the tracks of
\* the call (older and just spawned) with time_since_update <= max_age, in
\* the same relative order; a track is dropped if and only if its
\* time_since_update is then > max_age, so between calls no live track has
\* time_since_update > max_age.
C22_PruneInvariant ==
  /\ \A i \in Inst : \A k \in 1..Len(tracker[i].tracks) :
       tracker[i].tracks[k].time_since_update <= tracker[i].max_age
  /\ call.op = "update" =>
       Views(tracker[call.inst].tracks)
         = SelectSeq(call.all,
                     LAMBDA v : v.time_since_update <= tracker[call.inst].max_age)

\* max_age >= 1: a call drops a track that has now been unmatched for
\* max_age + 1 frames and keeps one that has been unmatched for max_age.
C22_Witness ==
  /\ call.op = "update"
  /\ tracker[call.inst].max_age >= 1
  /\ \E k \in 1..Len(call.all) :
       /\ call.all[k].time_since_update = tracker[call.inst].max_age + 1
       /\ ~InSeq(call.all[k].ref, tracker[call.inst].tracks)
  /\ \E k \in 1..Len(call.all) :
       /\ call.all[k].time_since_update = tracker[call.inst].max_age
       /\ InSeq(call.all[k].ref, tracker[call.inst].tracks)

\* C23: detections with score < track_thresh have no effect: update(D)
\* leaves the tracker in the state, and returns the tracks, of update(D
\* without those detections); they are matched to no track and create none,
\* while a detection with score = track_thresh is used like any other.
C23_LowScoreNoEffect ==
  [][(scen.kind = "low" /\ call'.op = "update") =>
       LET c == call'
           trk == tracker[1]
           kept == SelectSeq(c.detections, LAMBDA d : DetScore(d) >= trk.track_thresh)
           r == update(trk, kept, track_id_counter, Len(life) + 1)
       IN  /\ c.high_conf_dets = kept
           /\ tracker'[1].tracks = r.tracks
           /\ track_id_counter' = r.counter
           /\ c.active = Views(r.active)
           /\ c.matched = r.matched
           /\ c.all = Views(r.all)
           /\ Cardinality({k \in 1..Len(c.all) : c.all[k].time_since_update = 0})
                = Len(kept)
    ]_vars

\* A frame with a detection of score exactly track_thresh, which is matched
\* to the live track, and a detection of score 0.4 on the very box of that
\* track, which is not.
C23_Witness ==
  /\ scen.kind = "low"
  /\ call.op = "update"
  /\ call.detections = <<DetA2, DetLow>>
  /\ call.high_conf_dets = <<DetA2>>
  /\ call.matched = <<<<1, 1>>>>
  /\ Len(call.all) = 1

\* The state x moved n times by its own velocity.
Coasted(x, n) ==
  <<x[1] + n * x[5], x[2] + n * x[6], x[3] + n * x[7], x[4] + n * x[8],
    x[5], x[6], x[7], x[8]>>

\* C24: predict() adds each velocity component to its position/shape
\* component and leaves the velocities as they are: in every update() the
\* predicted box of each live track is the box of its state moved once by its
\* velocity, a track left unmatched has exactly that state afterwards, and a
\* track that has coasted k frames has the state of its last match moved by
\* k times the velocity of that state.
C24_ConstantVelocity ==
  [][(scen.kind = "coast" /\ call'.op = "update") =>
       LET old == tracker[1].tracks
           new == tracker'[1].tracks
       IN  /\ Len(call'.predicted) = Len(old)
           /\ \A k \in 1..Len(old) :
                LET t == old[k]
                    xp == Coasted(t.kf.x, 1)
                IN  /\ call'.predicted[k].ref = t.ref
                    /\ call'.predicted[k].bbox = z_to_bbox(xp)
                    /\ (InSeq(t.ref, new) /\ WithRef(t.ref, new).time_since_update > 0)
                         => WithRef(t.ref, new).kf.x = xp
           /\ \A k \in 1..Len(new) :
                new[k].kf.x = Coasted(scen'.x0[new[k].ref], new[k].time_since_update)
    ]_vars

\* A track that has coasted three frames with non-zero velocity of its
\* centre, its aspect ratio and its height.
C24_Witness ==
  /\ scen.kind = "coast"
  /\ \E k \in 1..Len(tracker[1].tracks) :
       LET t == tracker[1].tracks[k]
       IN  /\ t.time_since_update = 3
           /\ t.kf.x[5] # 0 /\ t.kf.x[7] # 0 /\ t.kf.x[8] # 0
           /\ t.kf.x = Coasted(scen.x0[t.ref], 3)

\* C25: the result that update() returned for a frame, i.e. the track_ids
\* and boxes of the tracks of the returned list, is not changed by later
\* update() calls on the tracker.
C25_ReturnedResultStable ==
  scen.kind = "held" =>
    \A k \in 1..Len(scen.seen) :
      /\ scen.now[k].track_id = scen.seen[k].track_id
      /\ scen.now[k].bbox = scen.seen[k].bbox

\* A caller holds a non-empty result of an earlier frame after a later
\* update() on the same tracker.
C25_Witness ==
  /\ scen.kind = "held"
  /\ Len(scen.seen) >= 1
  /\ call.op = "update"
  /\ frame[1] > scen.at
  /\ InSeq(scen.seen[1].ref, call.predicted)

\* C26: after every update() call every live track has 1 <= hits <= age and
\* 0 <= time_since_update <= age - hits, age - hits is the number of frames
\* in which the track was not matched, and age is 1 plus the number of
\* update() calls since the call that created the track.
C26_CounterInvariant ==
  \A i \in Inst : \A k \in 1..Len(tracker[i].tracks) :
    LET t == tracker[i].tracks[k]
        calls == frame[i] - (life[t.ref].born + 1)
    IN  /\ 1 <= t.hits /\ t.hits <= t.age
        /\ 0 <= t.time_since_update
        /\ t.time_since_update <= t.age - t.hits
        /\ t.hits = life[t.ref].assigned
        /\ t.age - t.hits = calls + 1 - life[t.ref].assigned
        /\ t.age = 1 + calls

\* A live track that was missed, matched again and missed again: its
\* time_since_update is below age - hits.
C26_Witness ==
  \E k \in 1..Len(tracker[1].tracks) :
    LET t == tracker[1].tracks[k]
    IN  /\ t.hits >= 2
        /\ t.time_since_update >= 1
        /\ t.time_since_update < t.age - t.hits

\* C27: when _match returns, no track left unmatched and detection left
\* unmatched have IoU >= match_thresh; so the box of a track spawned in a
\* frame has IoU < match_thresh with the predicted box of every older track
\* that the frame left unmatched.
C27_GreedyMaximal ==
  call.op = "update" =>
    LET c == call
        nT == Len(c.predicted)
        thresh == tracker[c.inst].match_thresh
    IN  /\ \A k \in 1..nT : \A d \in 1..Len(c.high_conf_dets) :
             ( /\ MatchedDet(c.matched, k) = 0
               /\ \A j \in 1..nT : MatchedDet(c.matched, j) # d )
               => CallIoU(k, d) < thresh
        /\ \A k \in 1..Len(c.unmatched_tracks) : \A d \in 1..Len(c.unmatched_dets) :
             CallIoU(c.unmatched_tracks[k], c.unmatched_dets[d]) < thresh
        /\ \A k \in 1..nT : \A n \in (nT + 1)..Len(c.all) :
             MatchedDet(c.matched, k) = 0
               => iou(c.predicted[k].bbox, c.all[n].bbox) < thresh

\* A frame that leaves a track unmatched and spawns a track whose box
\* overlaps the predicted box of that track, by less than match_thresh.
C27_Witness ==
  /\ call.op = "update"
  /\ \E k \in 1..Len(call.predicted) : \E n \in (Len(call.predicted) + 1)..Len(call.all) :
       /\ MatchedDet(call.matched, k) = 0
       /\ iou(call.predicted[k].bbox, call.all[n].bbox) > 0

\* C28: after every update() the live tracks with time_since_update = 0 are
\* as many as the input detections with score >= track_thresh, each such
\* detection being carried by exactly one track (the one it was matched to or
\* the one spawned for it); every returned track is in the live set and the
\* returned list is no longer than that number.
C28_DetectionConservation ==
  call.op = "update" =>
    LET c == call
        trk == tracker[c.inst]
        nT == Len(c.predicted)
        n == Len(SelectSeq(c.detections, LAMBDA d : DetScore(d) >= trk.track_thresh))
    IN  /\ Len(c.high_conf_dets) = n
        /\ Cardinality({k \in 1..Len(trk.tracks) : trk.tracks[k].time_since_update = 0}) = n
        /\ \A d \in 1..n :
             Cardinality({k \in 1..nT : MatchedDet(c.matched, k) = d})
               + Cardinality({u \in 1..Len(c.unmatched_dets) : c.unmatched_dets[u] = d}) = 1
        /\ \A a \in 1..Len(c.active) :
             /\ InSeq(c.active[a].ref, trk.tracks)
             /\ View(WithRef(c.active[a].ref, trk.tracks)) = c.active[a]
        /\ Len(c.active) <= n

\* A frame with max_age = 0 and two detections, one matched to a track and
\* one that spawns a track, which returns fewer tracks than it has
\* detections and drops a track.
C28_Witness ==
  /\ call.op = "update"
  /\ tracker[call.inst].max_age = 0
  /\ Len(call.high_conf_dets) = 2
  /\ Len(call.matched) = 1
  /\ Len(call.unmatched_dets) = 1
  /\ Len(call.active) = 1
  /\ Len(call.all) = 3
  /\ Len(tracker[call.inst].tracks) = 2

GoneRefs == 1..(2 * MaxGoneFrames)
GoneLive(r) == InSeq(r, tracker[1].tracks)
GonePruned(r) == r <= Len(life) /\ life[r].pruned

\* One update() of the clip, seen from the tracks live before it: each of
\* them, also one that has missed max_age frames, is a candidate of the
\* association; if it is matched it stays live with time_since_update = 0;
\* if not, it stays live exactly if it has now missed at most max_age
\* frames in a row.
GoneStep ==
  (scen.kind = "gone" /\ frame'[1] = frame[1] + 1) =>
    LET old == tracker[1].tracks
        new == tracker'[1].tracks
        max_age == tracker[1].max_age
    IN  /\ Len(call'.predicted) = Len(old)
        /\ \A k \in 1..Len(old) :
             LET r == old[k].ref
                 m == scen.missed[r]
             IN  /\ old[k].time_since_update = m
                 /\ m <= max_age
                 /\ call'.predicted[k].ref = r
                 /\ IF MatchedDet(call'.matched, k) # 0
                    THEN /\ InSeq(r, new)
                         /\ WithRef(r, new).time_since_update = 0
                         /\ scen'.missed[r] = 0
                    ELSE /\ scen'.missed[r] = m + 1
                         /\ InSeq(r, new) <=> m + 1 <= max_age
                         /\ InSeq(r, new) => WithRef(r, new).time_since_update = m + 1
                         /\ ~InSeq(r, new) => life'[r].pruned

\* C29: a track is kept through max_age update() calls in a row that leave
\* it unmatched and removed at the end of the (max_age+1)-th; a track that
\* has missed max_age frames is still a candidate in the next frame and is
\* retained, with time_since_update = 0, if matched there; and every track
\* that has missed a call, while the loop still makes the update() calls
\* that take it past max_age, is eventually matched again or pruned, so a
\* track that is never matched again in those update() calls is pruned.
C29_PrunedAtExactBound ==
  /\ [][GoneStep]_vars
  /\ \A r \in GoneRefs :
       (/\ GoneLive(r) /\ scen.missed[r] >= 1
        /\ GoneLeft >= tracker[1].max_age + 1 - scen.missed[r])
         ~> (GonePruned(r) \/ (GoneLive(r) /\ scen.missed[r] = 0))

\* With max_age = 2, the last call matched a track that had missed two
\* frames in a row, which is live, and left another unmatched for the third
\* frame in a row, which is removed.
C29_Witness ==
  /\ scen.kind = "gone"
  /\ call.op = "update"
  /\ tracker[1].max_age = 2
  /\ \E k \in 1..Len(call.predicted) :
       /\ call.predicted[k].time_since_update = 3
       /\ MatchedDet(call.matched, k) # 0
       /\ GoneLive(call.predicted[k].ref)
  /\ \E k \in 1..Len(call.predicted) :
       /\ scen.missed[call.predicted[k].ref] = 3
       /\ GonePruned(call.predicted[k].ref)

\* C30: hits of a track never decreases, and a track that update() has
\* returned before is returned by every later update() that matches it,
\* also by the first one after frames in which it was not matched.
C30_ConfirmationPermanent ==
  [][(scen.kind = "clip" /\ call'.op = "update") =>
       LET old == tracker[1].tracks
           c == call'
       IN  \A k \in 1..Len(old) :
             LET r == old[k].ref
             IN  /\ InSeq(r, c.all)
                 /\ WithRef(r, c.all).hits >= old[k].hits
                 /\ (life[r].first_report >= 0 /\ MatchedDet(c.matched, k) # 0)
                      => InSeq(r, c.active)
    ]_vars

\* With min_hits = 3, a track that was returned before and then coasted two
\* frames is matched and returned, its latest run of matches being this one
\* match.
C30_Witness ==
  /\ scen.kind = "clip"
  /\ call.op = "update"
  /\ tracker[1].min_hits = 3
  /\ \E k \in 1..Len(call.predicted) :
       LET r == call.predicted[k].ref
       IN  /\ call.predicted[k].time_since_update = 3
           /\ MatchedDet(call.matched, k) # 0
           /\ life[r].first_report >= 0
           /\ life[r].first_report < frame[1] - 1
           /\ life[r].streak = 1
           /\ InSeq(r, call.active)

====
